---- MODULE Spec2Model ----
(***************************************************************************)
(* Risk-scoring and assessment-ledger engine of zama-fhe-riskcontrol:      *)
(* the Plain contract RiskControl (contracts/RiskControl.sol) and the      *)
(* Confidential contract FHERC (contracts/RiskControlFHE.sol).             *)
(*                                                                         *)
(* Unsigned integers are little-endian sequences of base-256 limbs without *)
(* a most-significant zero limb (<<>> is 0), so that uint256 and euint32   *)
(* values keep their real width: a uint256 has at most 32 limbs, a euint32 *)
(* at most 4.                                                              *)
(***************************************************************************)
EXTENDS Integers, Sequences, FiniteSets, TLC

\* ------------------------------------------------------------------------
\* Bounds of the model
\* ------------------------------------------------------------------------
MaxSteps == 2

\* ------------------------------------------------------------------------
\* Unsigned integer arithmetic on limb sequences
\* ------------------------------------------------------------------------
Base == 256

Max(S) == CHOOSE x \in S : \A y \in S : y <= x

\* s without its most-significant zero limbs
Norm(s) ==
    LET nonzero == {i \in 1..Len(s) : s[i] # 0}
    IN  IF nonzero = {} THEN <<>> ELSE SubSeq(s, 1, Max(nonzero))

\* the limbs of an Int below 2^31
FromInt(n) == Norm([i \in 1..4 |-> (n \div Base^(i - 1)) % Base])

Limb(a, i) == IF i <= Len(a) THEN a[i] ELSE 0

\* a < b
Lt(a, b) ==
    IF Len(a) # Len(b) THEN Len(a) < Len(b)
    ELSE \E i \in 1..Len(a) :
             /\ a[i] < b[i]
             /\ \A j \in (i + 1)..Len(a) : a[j] = b[j]

\* a > b
Gt(a, b) == Lt(b, a)

\* a >= b
Geq(a, b) == ~Lt(a, b)

\* one limb and the carry out of it, from the limb's unreduced value
OneLimb(value) == [limbs |-> <<value % Base>>, carry |-> value \div Base]

\* the limbs of a range from those of its low and high halves, with the
\* carry that leaves the high half
JoinLimbs(low, high) == [limbs |-> low.limbs \o high.limbs, carry |-> high.carry]

\* limbs lo..hi of a + b with the carry coming in: the sum limbs and the
\* carry going out (the range is halved; the low half is finished first and
\* its carry goes into the high half)
RECURSIVE AddRange(_, _, _, _, _)
AddRange(a, b, lo, hi, carry) ==
    IF lo = hi THEN OneLimb(Limb(a, lo) + Limb(b, lo) + carry)
    ELSE LET mid == (lo + hi) \div 2
         IN  CHOOSE sum \in {JoinLimbs(low, AddRange(a, b, mid + 1, hi, low.carry)) :
                                low \in {AddRange(a, b, lo, mid, carry)}} : TRUE

\* a + b, unbounded
Add(a, b) == Norm(AddRange(a, b, 1, Max({Len(a), Len(b)}) + 1, 0).limbs)

\* limbs lo..hi of a * k for one limb k, with the carry coming in
RECURSIVE MulRange(_, _, _, _, _)
MulRange(a, k, lo, hi, carry) ==
    IF lo = hi THEN OneLimb(Limb(a, lo) * k + carry)
    ELSE LET mid == (lo + hi) \div 2
         IN  CHOOSE product \in {JoinLimbs(low, MulRange(a, k, mid + 1, hi, low.carry)) :
                                    low \in {MulRange(a, k, lo, mid, carry)}} : TRUE

\* a * k for one limb k
MulLimb(a, k) == Norm(MulRange(a, k, 1, Len(a) + 1, 0).limbs)

\* a * Base^n
ShiftLimbs(a, n) == IF a = <<>> THEN <<>> ELSE [i \in 1..n |-> 0] \o a

\* a * (limbs lo..hi of b), by halving the range
RECURSIVE MulLimbs(_, _, _, _)
MulLimbs(a, b, lo, hi) ==
    IF lo = hi THEN MulLimb(a, b[lo])
    ELSE Add(MulLimbs(a, b, lo, (lo + hi) \div 2),
             ShiftLimbs(MulLimbs(a, b, (lo + hi) \div 2 + 1, hi), (lo + hi) \div 2 + 1 - lo))

\* a * b, unbounded
Mul(a, b) == IF a = <<>> \/ b = <<>> THEN <<>> ELSE MulLimbs(a, b, 1, Len(b))

\* one quotient limb and the remainder out of it
OneQuotient(cur, d) == [limbs |-> <<cur \div d>>, rem |-> cur % d]

\* the quotient limbs of a range from those of its halves, with the
\* remainder that leaves the low half
JoinQuotient(low, high) == [limbs |-> low.limbs \o high.limbs, rem |-> low.rem]

\* long division of limbs lo..hi of a by d with the remainder coming in from
\* above: the quotient limbs and the remainder going out (the range is halved;
\* the high half is finished first and its remainder goes into the low half)
RECURSIVE DivRange(_, _, _, _, _)
DivRange(a, d, lo, hi, rem) ==
    IF lo = hi THEN OneQuotient(rem * Base + a[lo], d)
    ELSE LET mid == (lo + hi) \div 2
         IN  CHOOSE quotient \in {JoinQuotient(DivRange(a, d, lo, mid, high.rem), high) :
                                     high \in {DivRange(a, d, mid + 1, hi, rem)}} : TRUE

\* a / d with truncation, for a divisor d that is an Int of at most 10^6
Div(a, d) == IF a = <<>> THEN <<>> ELSE Norm(DivRange(a, d, 1, Len(a), 0).limbs)

\* a mod 2^(8*limbs)
Wrap(a, limbs) == IF Len(a) <= limbs THEN a ELSE Norm(SubSeq(a, 1, limbs))

Uint256Limbs == 32
Uint32Limbs == 4

\* type(uint256).max
UintMax == [i \in 1..Uint256Limbs |-> Base - 1]

\* the value does not fit a uint256: checked arithmetic reverts with Panic(0x11)
Overflows256(a) == Len(a) > Uint256Limbs

\* ------------------------------------------------------------------------
\* Program constants and input sets
\* ------------------------------------------------------------------------
ZeroAddress == "0x0"
Deployer == "deployer"
Other == "other"
Callers == {Deployer, Other}
Addresses == {ZeroAddress, Deployer, Other}

ClientIds == {"", "client-1", "client-2"}

DefaultIncomeMultiplier == FromInt(2)
DefaultRiskThreshold == FromInt(50)

\* 50000 USDT with 6 decimals
Income50k == Mul(FromInt(50000), FromInt(1000000))

Ages == {FromInt(35), UintMax}
Incomes == {<<>>, Income50k, UintMax}
Multipliers == {FromInt(2), FromInt(13)}
Thresholds == {FromInt(50), FromInt(90)}

\* the batches submitted to batchAssessRisk: <<ages, incomes, clientIds>>
BatchAges == <<FromInt(35), UintMax, FromInt(35)>>
BatchIncomes == <<Income50k, UintMax, <<>> >>
BatchIds ==
    {<<>>, <<"client-1">>, <<"">>,
     <<"client-1", "client-2">>, <<"client-2", "client-1">>,
     <<"client-1", "client-1">>,
     <<"", "client-1">>, <<"client-1", "">>,
     <<"client-1", "", "client-2">>}
Batches ==
    { <<SubSeq(BatchAges, 1, Len(ids)), SubSeq(BatchIncomes, 1, Len(ids)), ids>> :
        ids \in BatchIds }
    \cup
    { <<SubSeq(BatchAges, 1, 1), SubSeq(BatchIncomes, 1, 2),
        <<"client-1", "client-2">> >>,
      <<SubSeq(BatchAges, 1, 2), SubSeq(BatchIncomes, 1, 1),
        <<"client-1", "client-2">> >>,
      <<SubSeq(BatchAges, 1, 2), SubSeq(BatchIncomes, 1, 2), <<"client-1">> >> }

\* dollars and micros as an amount of 6-decimal units
MicroUsdt(dollars, micros) ==
    Add(Mul(FromInt(dollars), FromInt(1000000)), FromInt(micros))

\* the inputs of the scoring functions: ages around the cap of 40 and around
\* the largest age whose product with 40 fits uint256, incomes around the
\* whole thousands of dollars and around the cap of 60
ScoreAges ==
    {FromInt(n) : n \in {0, 1, 39, 40, 41, 100}}
    \cup {Wrap(UintMax, Uint32Limbs), Div(UintMax, 40),
          Add(Div(UintMax, 40), FromInt(1)), UintMax}
ScoreDollars == {0, 999, 1000, 4294, 59999, 60000, 60999, 61000, 2000000}
ScoreMicros == {0, 999999}
ScoreInputs ==
    {[age |-> age, income |-> MicroUsdt(d, m), dollars |-> d, micros |-> m] :
        age \in ScoreAges, d \in ScoreDollars, m \in ScoreMicros}
    \cup {[age |-> age, income |-> UintMax, dollars |-> 0, micros |-> 0] :
            age \in ScoreAges}

\* the clientId arrays handed to getBatchAssessmentResults
Queries ==
    {<<>>, <<"client-1", "", "client-2">>, <<"client-2", "client-1", "client-1">>}

\* ------------------------------------------------------------------------
\* State
\* ------------------------------------------------------------------------
VARIABLES
    owner,              \* address private owner
    riskParameters,     \* RiskParameters public riskParameters
    assessmentResults,  \* mapping(string => AssessmentResult)
    allClientIds,       \* string[] private allClientIds
    now,                \* block.timestamp of the current block
    steps,              \* number of transactions and blocks so far
    lastCall,           \* the last transaction: operation, arguments, outcome
    events,             \* the events the last transaction emitted
    assessed,           \* history: successful assessments per clientId
    writtenUnder,       \* history: the parameters a record was written under
    lastWritten,        \* history: the last AssessmentPerformed event per clientId
    firstAssessed,      \* history: the clientIds in the order of their first event
    scoreInput,         \* an age and an income handed to the scoring functions
    scoreOutput,        \* what the scoring functions returned for scoreInput
    fheOwner,               \* FHERC: address private owner
    fheRiskParameters,      \* FHERC: RiskParameters public riskParameters
    encryptedAssessments,   \* FHERC: mapping(string => EncryptedAssessment)
    fheAllClientIds,        \* FHERC: string[] private allClientIds
    fheLastCall,            \* FHERC: the last transaction
    fheEvents,              \* FHERC: the events the last transaction emitted
    account,            \* App: const [account, setAccount] = useState("")
    isAdmin,            \* App: const [isAdmin, setIsAdmin] = useState(false)
    checks,             \* App: the checkAdmin calls awaiting getOwner
    listeners           \* App: the accountsChanged listeners registered

plainVars == <<owner, riskParameters, assessmentResults, allClientIds,
               lastCall, events, assessed, writtenUnder, lastWritten,
               firstAssessed>>

scoreVars == <<scoreInput, scoreOutput>>

fheVars == <<fheOwner, fheRiskParameters, encryptedAssessments,
             fheAllClientIds, fheLastCall, fheEvents>>

appVars == <<account, isAdmin, checks, listeners>>

vars == <<plainVars, fheVars, scoreVars, appVars, now, steps>>

\* the zero value of a mapping slot
NoResult ==
    [creditLimit |-> <<>>, riskScore |-> <<>>, approved |-> FALSE,
     clientId |-> "", timestamp |-> 0]

\* no AssessmentPerformed event yet
NoEvent == [name |-> ""]

\* no scoring input, no scoring output
NoInput == [age |-> <<>>, income |-> <<>>, dollars |-> 0, micros |-> 0]
NoOutput == [done |-> FALSE]

NoCall == [op |-> "constructor", sender |-> Deployer, args |-> <<>>,
           error |-> "", ret |-> <<>>]

\* ------------------------------------------------------------------------
\* RiskControl.sol
\* ------------------------------------------------------------------------
Panic == <<-1>>

\* unchecked arithmetic: the result wraps modulo 2^256
Checked_wrap(x) == Wrap(x, Uint256Limbs)

\* a checked uint256 operation: the result, or Panic when it does not fit
Checked(x) == IF Overflows256(x) THEN Panic ELSE x

\* a score whose income factor divides the dollars by 100
calculateRiskScore_div100(age, annualIncome) ==
    LET ageFactor ==
            IF Gt(age, FromInt(40)) THEN FromInt(40)
            ELSE Div(Mul(age, FromInt(40)), 40)
        incomeInDollars == Div(annualIncome, 1000000)
        incomeFactor ==
            IF Gt(Div(incomeInDollars, 100), FromInt(60)) THEN FromInt(60)
            ELSE Div(incomeInDollars, 100)
    IN  Add(ageFactor, incomeFactor)

\* an age factor that multiplies before it looks at the age
AgeFactor_mulFirst(age) ==
    IF Checked(Mul(age, FromInt(40))) = Panic THEN Panic
    ELSE IF Gt(age, FromInt(40)) THEN FromInt(40)
    ELSE Div(Mul(age, FromInt(40)), 40)

\* uint256 ageFactor = _age > 40 ? 40 : (_age * 40) / 40
AgeFactor(age) ==
    IF Gt(age, FromInt(40)) THEN FromInt(40)
    ELSE IF Checked(Mul(age, FromInt(40))) = Panic THEN Panic
    ELSE Div(Mul(age, FromInt(40)), 40)

\* an income factor without the cap
IncomeFactor_noCap(annualIncome) == Div(Div(annualIncome, 1000000), 1000)

\* uint256 incomeInDollars = _annualIncome / 10**6;
\* uint256 incomeFactor = incomeInDollars / 1000 > 60 ? 60 : incomeInDollars / 1000
IncomeFactor(annualIncome) ==
    IF Gt(Div(Div(annualIncome, 1000000), 1000), FromInt(60)) THEN FromInt(60)
    ELSE Div(Div(annualIncome, 1000000), 1000)

\* a score that adds the age factor twice
ScoreSum_ageTwice(ageFactor, incomeFactor) ==
    Checked(Add(Add(ageFactor, ageFactor), incomeFactor))

\* return ageFactor + incomeFactor
ScoreSum(ageFactor, incomeFactor) == Checked(Add(ageFactor, incomeFactor))

\* calculateRiskScore(_age, _annualIncome)
calculateRiskScore(age, annualIncome) ==
    IF AgeFactor(age) = Panic THEN Panic
    ELSE ScoreSum(AgeFactor(age), IncomeFactor(annualIncome))

\* an existence check that looks at the last entry only
clientIdExists_lastOnly(ids, clientId) ==
    ids # <<>> /\ ids[Len(ids)] = clientId

\* an existence check that never finds the id
clientIdExists_never(ids, clientId) == FALSE

\* clientIdExists(_clientId) on the array ids
clientIdExists(ids, clientId) == \E i \in 1..Len(ids) : ids[i] = clientId

\* an index that is never extended
indexAfter_noPush(ids, clientId) == ids

\* an index that writes a new clientId over its last slot
indexAfter_overwriteLast(ids, clientId) ==
    IF clientIdExists(ids, clientId) THEN ids
    ELSE IF ids = <<>> THEN <<clientId>>
    ELSE [ids EXCEPT ![Len(ids)] = clientId]

\* an index that puts a new clientId in front
indexAfter_prepend(ids, clientId) ==
    IF clientIdExists(ids, clientId) THEN ids ELSE <<clientId>> \o ids

\* if (!clientIdExists(_clientId)) allClientIds.push(_clientId)
indexAfter(ids, clientId) ==
    IF clientIdExists(ids, clientId) THEN ids ELSE Append(ids, clientId)

\* approval by strictly-greater
IsApproved_strict(riskScore, threshold) == Gt(riskScore, threshold)

\* the approval rule of assessRisk
IsApproved(riskScore, threshold) == Geq(riskScore, threshold)

\* a credit limit that multiplies before it divides
creditLimitFor_mulFirst(approved, annualIncome, incomeMultiplier) ==
    IF approved THEN Div(Mul(annualIncome, incomeMultiplier), 12) ELSE <<>>

\* the credit limit of assessRisk, unchecked: monthly income * multiplier
creditLimitFor(approved, annualIncome, incomeMultiplier) ==
    IF approved THEN Mul(Div(annualIncome, 12), incomeMultiplier) ELSE <<>>

\* an assessRisk that accepts every clientId
ClientIdGiven_any(clientId) == TRUE

\* bytes(_clientId).length > 0, the only requirement of assessRisk
ClientIdGiven(clientId) == clientId # ""

\* an assessRisk whose score grows with the number of indexed clients
assessRisk_scoreByLedger(results, ids, params, age, annualIncome, clientId, ts) ==
    LET failed(err) ==
            [error |-> err, ret |-> <<>>, results |-> results, ids |-> ids,
             emitted |-> <<>>]
        riskScore ==
            Add(calculateRiskScore(age, annualIncome), FromInt(Len(ids)))
        approved == IsApproved(riskScore, params.riskThreshold)
        creditLimit ==
            Checked(creditLimitFor(approved, annualIncome,
                                   params.incomeMultiplier))
    IN  IF ~ClientIdGiven(clientId) THEN failed("InvalidInput")
        ELSE IF riskScore = Panic THEN failed("Panic")
        ELSE IF creditLimit = Panic THEN failed("Panic")
        ELSE [error |-> "",
              ret |-> <<creditLimit, riskScore, approved>>,
              results |->
                  [results EXCEPT ![clientId] =
                      [creditLimit |-> creditLimit, riskScore |-> riskScore,
                       approved |-> approved, clientId |-> clientId,
                       timestamp |-> ts]],
              ids |-> indexAfter(ids, clientId),
              emitted |->
                  <<[name |-> "AssessmentPerformed", clientId |-> clientId,
                     creditLimit |-> creditLimit, riskScore |-> riskScore,
                     approved |-> approved, timestamp |-> ts]>>]

\* One run of assessRisk on the storage <<results, ids>>: the outcome, the
\* returned values, the storage afterwards and the event.
assessRisk(results, ids, params, age, annualIncome, clientId, ts) ==
    LET failed(err) ==
            [error |-> err, ret |-> <<>>, results |-> results, ids |-> ids,
             emitted |-> <<>>]
        riskScore == calculateRiskScore(age, annualIncome)
        approved == IsApproved(riskScore, params.riskThreshold)
        creditLimit ==
            Checked(creditLimitFor(approved, annualIncome,
                                   params.incomeMultiplier))
    IN  IF ~ClientIdGiven(clientId) THEN failed("InvalidInput")
        ELSE IF riskScore = Panic THEN failed("Panic")
        ELSE IF creditLimit = Panic THEN failed("Panic")
        ELSE [error |-> "",
              ret |-> <<creditLimit, riskScore, approved>>,
              results |->
                  [results EXCEPT ![clientId] =
                      [creditLimit |-> creditLimit, riskScore |-> riskScore,
                       approved |-> approved, clientId |-> clientId,
                       timestamp |-> ts]],
              ids |-> indexAfter(ids, clientId),
              emitted |->
                  <<[name |-> "AssessmentPerformed", clientId |-> clientId,
                     creditLimit |-> creditLimit, riskScore |-> riskScore,
                     approved |-> approved, timestamp |-> ts]>>]

\* a loop that runs from the last index down to the first
RECURSIVE batchLoop_backwards(_, _, _, _, _, _, _, _, _, _)
batchLoop_backwards(results, ids, params, ages, incomes, clientIds, ts, i, count, emitted) ==
    IF i > Len(ages)
    THEN [successCount |-> count, results |-> results, ids |-> ids,
          emitted |-> emitted]
    ELSE LET r == assessRisk(results, ids, params, ages[Len(ages) + 1 - i],
                             incomes[Len(ages) + 1 - i],
                             clientIds[Len(ages) + 1 - i], ts)
         IN  IF r.error = ""
             THEN batchLoop_backwards(r.results, r.ids, params, ages, incomes,
                                      clientIds, ts, i + 1, count + 1,
                                      emitted \o r.emitted)
             ELSE batchLoop_backwards(results, ids, params, ages, incomes,
                                      clientIds, ts, i + 1, count, emitted)

\* a loop that stops at the first failing item instead of skipping it
RECURSIVE batchLoop_abort(_, _, _, _, _, _, _, _, _, _)
batchLoop_abort(results, ids, params, ages, incomes, clientIds, ts, i, count, emitted) ==
    IF i > Len(ages)
    THEN [successCount |-> count, results |-> results, ids |-> ids,
          emitted |-> emitted]
    ELSE LET r == assessRisk(results, ids, params, ages[i], incomes[i],
                             clientIds[i], ts)
         IN  IF r.error = ""
             THEN batchLoop_abort(r.results, r.ids, params, ages, incomes,
                                  clientIds, ts, i + 1, count + 1,
                                  emitted \o r.emitted)
             ELSE [successCount |-> count, results |-> results, ids |-> ids,
                   emitted |-> emitted]

\* the loop of batchAssessRisk from index i on, with successCount = count
RECURSIVE batchLoop(_, _, _, _, _, _, _, _, _, _)
batchLoop(results, ids, params, ages, incomes, clientIds, ts, i, count, emitted) ==
    IF i > Len(ages)
    THEN [successCount |-> count, results |-> results, ids |-> ids,
          emitted |-> emitted]
    ELSE LET r == assessRisk(results, ids, params, ages[i], incomes[i],
                             clientIds[i], ts)
         IN  IF r.error = ""
             THEN batchLoop(r.results, r.ids, params, ages, incomes, clientIds,
                            ts, i + 1, count + 1, emitted \o r.emitted)
             ELSE batchLoop(results, ids, params, ages, incomes, clientIds,
                            ts, i + 1, count, emitted)

\* a length check that forgets the ages array
LengthsMatch_incomesIds(ages, incomes, clientIds) == Len(incomes) = Len(clientIds)

\* the require at the head of batchAssessRisk
LengthsMatch(ages, incomes, clientIds) ==
    Len(ages) = Len(incomes) /\ Len(incomes) = Len(clientIds)

\* a modifier that lets every caller through
onlyOwner_anyone(sender, currentOwner) == TRUE

\* modifier onlyOwner
onlyOwner(sender, currentOwner) == sender = currentOwner

\* a lookup without the existence check
getAssessmentResult_noCheck(clientId) ==
    [error |-> "",
     ret |-> <<assessmentResults[clientId].creditLimit,
               assessmentResults[clientId].riskScore,
               assessmentResults[clientId].approved,
               assessmentResults[clientId].timestamp>>]

\* views
getAssessmentResult(clientId) ==
    IF clientId = "" THEN [error |-> "NotFound", ret |-> <<>>]
    ELSE IF assessmentResults[clientId].clientId = ""
    THEN [error |-> "NotFound", ret |-> <<>>]
    ELSE LET result == assessmentResults[clientId]
         IN  [error |-> "",
              ret |-> <<result.creditLimit, result.riskScore, result.approved,
                        result.timestamp>>]

\* a batch lookup that reads the first clientId at every position
getBatchAssessmentResults_firstOnly(clientIds) ==
    [i \in 1..Len(clientIds) |-> assessmentResults[clientIds[1]]]

getBatchAssessmentResults(clientIds) ==
    [i \in 1..Len(clientIds) |-> assessmentResults[clientIds[i]]]

getAllClientIds == allClientIds

getAssessmentCount == Len(allClientIds)

getRiskParameters == riskParameters

getOwner == owner

\* ------------------------------------------------------------------------
\* Transactions of RiskControl
\* ------------------------------------------------------------------------
DefaultParameters ==
    [incomeMultiplier |-> DefaultIncomeMultiplier,
     riskThreshold |-> DefaultRiskThreshold]

\* constructor()
PlainInit ==
    /\ owner = Deployer
    /\ riskParameters = DefaultParameters
    /\ assessmentResults = [c \in ClientIds |-> NoResult]
    /\ allClientIds = <<>>
    /\ lastCall = NoCall
    /\ events = <<>>
    /\ assessed = [c \in ClientIds |-> 0]
    /\ writtenUnder = [c \in ClientIds |-> DefaultParameters]
    /\ lastWritten = [c \in ClientIds |-> NoEvent]
    /\ firstAssessed = <<>>

\* the AssessmentPerformed events of clientId among the emitted ones
AssessedIn(emitted, clientId) ==
    Cardinality({i \in 1..Len(emitted) :
                    /\ emitted[i].name = "AssessmentPerformed"
                    /\ emitted[i].clientId = clientId})

\* the positions of the AssessmentPerformed events of clientId
EventsOf(emitted, clientId) ==
    {i \in 1..Len(emitted) : /\ emitted[i].name = "AssessmentPerformed"
                             /\ emitted[i].clientId = clientId}

\* seen extended by the clientIds of the events from position i on that are
\* not yet in it, in the order of the events
RECURSIVE FirstEvents(_, _, _)
FirstEvents(seen, emitted, i) ==
    IF i > Len(emitted) THEN seen
    ELSE IF \E j \in 1..Len(seen) : seen[j] = emitted[i].clientId
    THEN FirstEvents(seen, emitted, i + 1)
    ELSE FirstEvents(seen \o <<emitted[i].clientId>>, emitted, i + 1)

\* the history variables after a transaction that emitted these events
History(emitted) ==
    /\ assessed' = [c \in ClientIds |-> assessed[c] + AssessedIn(emitted, c)]
    /\ writtenUnder' = [c \in ClientIds |->
                           IF AssessedIn(emitted, c) > 0 THEN riskParameters
                           ELSE writtenUnder[c]]
    /\ lastWritten' = [c \in ClientIds |->
                          IF EventsOf(emitted, c) = {} THEN lastWritten[c]
                          ELSE emitted[Max(EventsOf(emitted, c))]]
    /\ firstAssessed' = FirstEvents(firstAssessed, emitted, 1)

Call(op, sender, args, error, ret) ==
    [op |-> op, sender |-> sender, args |-> args, error |-> error, ret |-> ret]

PlainAssessRisk_takesOwnership(sender, age, annualIncome, clientId) ==
    LET r == assessRisk(assessmentResults, allClientIds, riskParameters,
                        age, annualIncome, clientId, now)
    IN  /\ assessmentResults' = r.results
        /\ allClientIds' = r.ids
        /\ events' = r.emitted
        /\ History(r.emitted)
        /\ lastCall' = Call("assessRisk", sender,
                            <<age, annualIncome, clientId>>, r.error, r.ret)
        /\ owner' = sender
        /\ UNCHANGED riskParameters

PlainAssessRisk(sender, age, annualIncome, clientId) ==
    LET r == assessRisk(assessmentResults, allClientIds, riskParameters,
                        age, annualIncome, clientId, now)
    IN  /\ assessmentResults' = r.results
        /\ allClientIds' = r.ids
        /\ events' = r.emitted
        /\ History(r.emitted)
        /\ lastCall' = Call("assessRisk", sender,
                            <<age, annualIncome, clientId>>, r.error, r.ret)
        /\ UNCHANGED <<owner, riskParameters>>

PlainBatchAssessRisk_silentWhenNone(sender, ages, incomes, clientIds) ==
    /\ IF ~LengthsMatch(ages, incomes, clientIds)
       THEN /\ lastCall' = Call("batchAssessRisk", sender,
                                <<ages, incomes, clientIds>>,
                                "LengthMismatch", <<>>)
            /\ events' = <<>>
            /\ UNCHANGED <<assessmentResults, allClientIds, assessed,
                           writtenUnder, lastWritten, firstAssessed>>
       ELSE LET r == batchLoop(assessmentResults, allClientIds, riskParameters,
                               ages, incomes, clientIds, now, 1, 0, <<>>)
            IN  /\ assessmentResults' = r.results
                /\ allClientIds' = r.ids
                /\ events' = IF r.successCount = 0 THEN <<>>
                             ELSE r.emitted \o
                                  <<[name |-> "BatchAssessmentPerformed",
                                     count |-> r.successCount,
                                     timestamp |-> now]>>
                /\ History(r.emitted)
                /\ lastCall' = Call("batchAssessRisk", sender,
                                    <<ages, incomes, clientIds>>,
                                    "", <<r.successCount>>)
    /\ UNCHANGED <<owner, riskParameters>>

PlainBatchAssessRisk(sender, ages, incomes, clientIds) ==
    /\ IF ~LengthsMatch(ages, incomes, clientIds)
       THEN /\ lastCall' = Call("batchAssessRisk", sender,
                                <<ages, incomes, clientIds>>,
                                "LengthMismatch", <<>>)
            /\ events' = <<>>
            /\ UNCHANGED <<assessmentResults, allClientIds, assessed,
                           writtenUnder, lastWritten, firstAssessed>>
       ELSE LET r == batchLoop(assessmentResults, allClientIds, riskParameters,
                               ages, incomes, clientIds, now, 1, 0, <<>>)
            IN  /\ assessmentResults' = r.results
                /\ allClientIds' = r.ids
                /\ events' = r.emitted \o
                       <<[name |-> "BatchAssessmentPerformed",
                          count |-> r.successCount, timestamp |-> now]>>
                /\ History(r.emitted)
                /\ lastCall' = Call("batchAssessRisk", sender,
                                    <<ages, incomes, clientIds>>,
                                    "", <<r.successCount>>)
    /\ UNCHANGED <<owner, riskParameters>>

\* an update that writes the threshold and keeps the old multiplier
PlainUpdateRiskParameters_thresholdOnly(sender, incomeMultiplier, riskThreshold) ==
    /\ IF ~onlyOwner(sender, owner)
       THEN /\ lastCall' = Call("updateRiskParameters", sender,
                                <<incomeMultiplier, riskThreshold>>,
                                "Unauthorized", <<>>)
            /\ events' = <<>>
            /\ UNCHANGED riskParameters
       ELSE /\ riskParameters' = [riskParameters EXCEPT
                                      !.riskThreshold = riskThreshold]
            /\ events' = <<[name |-> "ParametersUpdated", timestamp |-> now]>>
            /\ lastCall' = Call("updateRiskParameters", sender,
                                <<incomeMultiplier, riskThreshold>>, "", <<>>)
    /\ UNCHANGED <<owner, assessmentResults, allClientIds, assessed,
                   writtenUnder, lastWritten, firstAssessed>>

\* an update that re-evaluates the approval of every stored record
PlainUpdateRiskParameters_reevaluates(sender, incomeMultiplier, riskThreshold) ==
    /\ IF ~onlyOwner(sender, owner)
       THEN /\ lastCall' = Call("updateRiskParameters", sender,
                                <<incomeMultiplier, riskThreshold>>,
                                "Unauthorized", <<>>)
            /\ events' = <<>>
            /\ UNCHANGED <<riskParameters, assessmentResults>>
       ELSE /\ riskParameters' = [incomeMultiplier |-> incomeMultiplier,
                                  riskThreshold |-> riskThreshold]
            /\ assessmentResults' =
                   [c \in ClientIds |->
                       IF assessmentResults[c] = NoResult THEN NoResult
                       ELSE [assessmentResults[c] EXCEPT
                                !.approved =
                                    IsApproved(assessmentResults[c].riskScore,
                                               riskThreshold)]]
            /\ events' = <<[name |-> "ParametersUpdated", timestamp |-> now]>>
            /\ lastCall' = Call("updateRiskParameters", sender,
                                <<incomeMultiplier, riskThreshold>>, "", <<>>)
    /\ UNCHANGED <<owner, allClientIds, assessed, writtenUnder, lastWritten,
                   firstAssessed>>

PlainUpdateRiskParameters(sender, incomeMultiplier, riskThreshold) ==
    /\ IF ~onlyOwner(sender, owner)
       THEN /\ lastCall' = Call("updateRiskParameters", sender,
                                <<incomeMultiplier, riskThreshold>>,
                                "Unauthorized", <<>>)
            /\ events' = <<>>
            /\ UNCHANGED riskParameters
       ELSE /\ riskParameters' = [incomeMultiplier |-> incomeMultiplier,
                                  riskThreshold |-> riskThreshold]
            /\ events' = <<[name |-> "ParametersUpdated", timestamp |-> now]>>
            /\ lastCall' = Call("updateRiskParameters", sender,
                                <<incomeMultiplier, riskThreshold>>, "", <<>>)
    /\ UNCHANGED <<owner, assessmentResults, allClientIds, assessed,
                   writtenUnder, lastWritten, firstAssessed>>

\* a transfer that accepts every new owner
AcceptsNewOwner_any(newOwner) == TRUE

\* require(_newOwner != address(0))
AcceptsNewOwner(newOwner) == newOwner # ZeroAddress

PlainTransferOwnership(sender, newOwner) ==
    /\ events' = <<>>
    /\ IF ~onlyOwner(sender, owner)
       THEN /\ lastCall' = Call("transferOwnership", sender, <<newOwner>>,
                                "Unauthorized", <<>>)
            /\ UNCHANGED owner
       ELSE IF ~AcceptsNewOwner(newOwner)
       THEN /\ lastCall' = Call("transferOwnership", sender, <<newOwner>>,
                                "InvalidInput", <<>>)
            /\ UNCHANGED owner
       ELSE /\ owner' = newOwner
            /\ lastCall' = Call("transferOwnership", sender, <<newOwner>>,
                                "", <<>>)
    /\ UNCHANGED <<riskParameters, assessmentResults, allClientIds, assessed,
                   writtenUnder, lastWritten, firstAssessed>>

\* ------------------------------------------------------------------------
\* RiskControlFHE.sol: contract FHERC
\* ------------------------------------------------------------------------
\* the Int of a small unsigned integer
ToInt(a) ==
    Limb(a, 1) + Limb(a, 2) * Base + Limb(a, 3) * Base^2 + Limb(a, 4) * Base^3

\* A euint32 is a handle on a 32-bit ciphertext, an ebool a handle on an
\* encrypted bit; the plaintext is what the key holder decrypts.
asEuint32(x) == [euint32 |-> Wrap(x, Uint32Limbs)]
decrypt(handle) == handle.euint32
decryptBool(handle) == handle.ebool

\* FHE.add, FHE.mul: 32-bit results, wrapping
FHEadd(a, b) == asEuint32(Add(decrypt(a), decrypt(b)))
FHEmul(a, b) == asEuint32(Mul(decrypt(a), decrypt(b)))
\* FHE.div by a trivially encrypted constant
FHEdiv(a, b) == asEuint32(Div(decrypt(a), ToInt(decrypt(b))))
\* FHE.gt: strictly greater
FHEgt(a, b) == [ebool |-> Gt(decrypt(a), decrypt(b))]
\* FHE.cmux(control, ifTrue, ifFalse)
FHEcmux(control, ifTrue, ifFalse) ==
    IF decryptBool(control) THEN ifTrue ELSE ifFalse
\* FHE.sealoutput
sealoutput(handle) == [sealed |-> handle]

\* type(uint32).max
Uint32Max == [i \in 1..Uint32Limbs |-> Base - 1]

FheAges == {asEuint32(FromInt(35)), asEuint32(Uint32Max)}
FheIncomes == {asEuint32(<<>>), asEuint32(Uint32Max)}
FheMultipliers == {asEuint32(FromInt(2)), asEuint32(FromInt(13))}
FheThresholds == {asEuint32(FromInt(50)), asEuint32(FromInt(40))}
FheBatches ==
    { <<SubSeq(<<asEuint32(Uint32Max), asEuint32(FromInt(35))>>, 1, Len(ids)),
        SubSeq(<<asEuint32(Uint32Max), asEuint32(<<>>)>>, 1, Len(ids)),
        ids>> :
        ids \in {<<>>, <<"client-1", "client-2">>, <<"", "client-1">>,
                 <<"client-1", "">>, <<"client-1", "client-1">>} }
    \cup
    { << <<asEuint32(Uint32Max)>>, <<>>, <<"client-1">> >> }

NoEncrypted ==
    [creditLimit |-> asEuint32(<<>>), riskScore |-> asEuint32(<<>>),
     approved |-> [ebool |-> FALSE], clientId |-> "", timestamp |-> 0]

FheDefaultParameters ==
    [incomeMultiplier |-> asEuint32(FromInt(2)),
     riskThreshold |-> asEuint32(FromInt(50))]

\* euint32 ageFactor = FHE.cmux(FHE.gt(age, 40), 40, FHE.div(FHE.mul(age, 40), 40))
EncryptedAgeFactor(encryptedAge) ==
    FHEcmux(FHEgt(encryptedAge, asEuint32(FromInt(40))),
            asEuint32(FromInt(40)),
            FHEdiv(FHEmul(encryptedAge, asEuint32(FromInt(40))),
                   asEuint32(FromInt(40))))

\* euint32 incomeInDollars = FHE.div(income, 10**6);
\* euint32 incomeFactor = FHE.cmux(FHE.gt(FHE.div(incomeInDollars, 1000), 60),
\*                                 60, FHE.div(incomeInDollars, 1000))
EncryptedIncomeFactor(encryptedIncome) ==
    LET incomeInDollars == FHEdiv(encryptedIncome, asEuint32(FromInt(1000000)))
    IN  FHEcmux(FHEgt(FHEdiv(incomeInDollars, asEuint32(FromInt(1000))),
                      asEuint32(FromInt(60))),
                asEuint32(FromInt(60)),
                FHEdiv(incomeInDollars, asEuint32(FromInt(1000))))

\* calculateEncryptedRiskScore(encryptedAge, encryptedIncome)
calculateEncryptedRiskScore(encryptedAge, encryptedIncome) ==
    FHEadd(EncryptedAgeFactor(encryptedAge),
           EncryptedIncomeFactor(encryptedIncome))

\* One run of assessRiskEncrypted on the storage <<results, ids>>.
assessRiskEncrypted(results, ids, params, encryptedAge, encryptedIncome, clientId, ts) ==
    LET encryptedRiskScore ==
            calculateEncryptedRiskScore(encryptedAge, encryptedIncome)
        encryptedApproved == FHEgt(encryptedRiskScore, params.riskThreshold)
        product ==
            FHEmul(FHEdiv(encryptedIncome, asEuint32(FromInt(12))),
                   params.incomeMultiplier)
        encryptedCreditLimit ==
            FHEcmux(encryptedApproved, product, asEuint32(<<>>))
    IN  IF clientId = ""
        THEN [error |-> "InvalidInput", ret |-> <<>>, results |-> results,
              ids |-> ids, emitted |-> <<>>]
        ELSE [error |-> "",
              ret |-> <<encryptedCreditLimit, encryptedRiskScore,
                        encryptedApproved>>,
              results |->
                  [results EXCEPT ![clientId] =
                      [creditLimit |-> encryptedCreditLimit,
                       riskScore |-> encryptedRiskScore,
                       approved |-> encryptedApproved,
                       clientId |-> clientId, timestamp |-> ts]],
              ids |-> IF clientIdExists(ids, clientId) THEN ids
                      ELSE Append(ids, clientId),
              emitted |->
                  <<[name |-> "AssessmentPerformed", clientId |-> clientId,
                     encryptedCreditLimit |-> sealoutput(encryptedCreditLimit),
                     encryptedRiskScore |-> sealoutput(encryptedRiskScore),
                     encryptedApproved |-> sealoutput(encryptedApproved),
                     timestamp |-> ts]>>]

\* the loop of batchAssessRiskEncrypted from index i on
RECURSIVE encryptedBatchLoop(_, _, _, _, _, _, _, _, _, _)
encryptedBatchLoop(results, ids, params, ages, incomes, clientIds, ts, i, count, emitted) ==
    IF i > Len(ages)
    THEN [successCount |-> count, results |-> results, ids |-> ids,
          emitted |-> emitted]
    ELSE LET r == assessRiskEncrypted(results, ids, params, ages[i],
                                      incomes[i], clientIds[i], ts)
         IN  IF r.error = ""
             THEN encryptedBatchLoop(r.results, r.ids, params, ages, incomes,
                                     clientIds, ts, i + 1, count + 1,
                                     emitted \o r.emitted)
             ELSE encryptedBatchLoop(results, ids, params, ages, incomes,
                                     clientIds, ts, i + 1, count, emitted)

getEncryptedAssessmentResult(clientId) ==
    IF clientId = "" THEN [error |-> "NotFound", ret |-> <<>>]
    ELSE IF encryptedAssessments[clientId].clientId = ""
    THEN [error |-> "NotFound", ret |-> <<>>]
    ELSE LET result == encryptedAssessments[clientId]
         IN  [error |-> "",
              ret |-> <<result.creditLimit, result.riskScore, result.approved,
                        result.timestamp>>]

\* constructor()
FheInit ==
    /\ fheOwner = Deployer
    /\ fheRiskParameters = FheDefaultParameters
    /\ encryptedAssessments = [c \in ClientIds |-> NoEncrypted]
    /\ fheAllClientIds = <<>>
    /\ fheLastCall = NoCall
    /\ fheEvents = <<>>

FheAssessRiskEncrypted(sender, encryptedAge, encryptedIncome, clientId) ==
    LET r == assessRiskEncrypted(encryptedAssessments, fheAllClientIds,
                                 fheRiskParameters, encryptedAge,
                                 encryptedIncome, clientId, now)
    IN  /\ encryptedAssessments' = r.results
        /\ fheAllClientIds' = r.ids
        /\ fheEvents' = r.emitted
        /\ fheLastCall' = Call("assessRiskEncrypted", sender,
                               <<encryptedAge, encryptedIncome, clientId>>,
                               r.error, r.ret)
        /\ UNCHANGED <<fheOwner, fheRiskParameters>>

FheBatchAssessRiskEncrypted(sender, encryptedAges, encryptedIncomes, clientIds) ==
    /\ IF ~LengthsMatch(encryptedAges, encryptedIncomes, clientIds)
       THEN /\ fheLastCall' = Call("batchAssessRiskEncrypted", sender,
                                   <<encryptedAges, encryptedIncomes,
                                     clientIds>>,
                                   "LengthMismatch", <<>>)
            /\ fheEvents' = <<>>
            /\ UNCHANGED <<encryptedAssessments, fheAllClientIds>>
       ELSE LET r == encryptedBatchLoop(encryptedAssessments, fheAllClientIds,
                                        fheRiskParameters, encryptedAges,
                                        encryptedIncomes, clientIds, now, 1,
                                        0, <<>>)
            IN  /\ encryptedAssessments' = r.results
                /\ fheAllClientIds' = r.ids
                /\ fheEvents' = r.emitted \o
                       <<[name |-> "BatchAssessmentPerformed",
                          count |-> r.successCount, timestamp |-> now]>>
                /\ fheLastCall' = Call("batchAssessRiskEncrypted", sender,
                                       <<encryptedAges, encryptedIncomes,
                                         clientIds>>,
                                       "", <<r.successCount>>)
    /\ UNCHANGED <<fheOwner, fheRiskParameters>>

FheUpdateRiskParametersEncrypted(sender, encryptedMultiplier, encryptedThreshold) ==
    /\ IF ~onlyOwner(sender, fheOwner)
       THEN /\ fheLastCall' = Call("updateRiskParametersEncrypted", sender,
                                   <<encryptedMultiplier, encryptedThreshold>>,
                                   "Unauthorized", <<>>)
            /\ fheEvents' = <<>>
            /\ UNCHANGED fheRiskParameters
       ELSE /\ fheRiskParameters' =
                   [incomeMultiplier |-> encryptedMultiplier,
                    riskThreshold |-> encryptedThreshold]
            /\ fheEvents' =
                   <<[name |-> "ParametersUpdated", timestamp |-> now]>>
            /\ fheLastCall' = Call("updateRiskParametersEncrypted", sender,
                                   <<encryptedMultiplier, encryptedThreshold>>,
                                   "", <<>>)
    /\ UNCHANGED <<fheOwner, encryptedAssessments, fheAllClientIds>>

FheTransferOwnership(sender, newOwner) ==
    /\ fheEvents' = <<>>
    /\ IF ~onlyOwner(sender, fheOwner)
       THEN /\ fheLastCall' = Call("transferOwnership", sender, <<newOwner>>,
                                   "Unauthorized", <<>>)
            /\ UNCHANGED fheOwner
       ELSE IF newOwner = ZeroAddress
       THEN /\ fheLastCall' = Call("transferOwnership", sender, <<newOwner>>,
                                   "InvalidInput", <<>>)
            /\ UNCHANGED fheOwner
       ELSE /\ fheOwner' = newOwner
            /\ fheLastCall' = Call("transferOwnership", sender, <<newOwner>>,
                                   "", <<>>)
    /\ UNCHANGED <<fheRiskParameters, encryptedAssessments, fheAllClientIds>>

\* ------------------------------------------------------------------------
\* The web app (App.tsx): the connected account and its admin flag

\* the checkAdmin calls and the listeners the model follows at a time
MaxPending == 2
MaxListeners == 2

\* an address as ethers returns it from the contract: checksummed, in
\* mixed case
AsReturned(address) ==
    CASE address = Deployer -> "0xDeployer"
      [] address = Other -> "0xOther"
      [] OTHER -> "0x0"

\* accounts[0] || "": what a wallet hands over, in lower or in mixed case
WalletAccounts == {"", "0xdeployer", "0xDeployer", "0xother"}

\* String.prototype.toLowerCase on the spellings above
toLowerCase(a) ==
    CASE a = "0xDeployer" -> "0xdeployer"
      [] a = "0xOther" -> "0xother"
      [] OTHER -> a

\* normAddr(a): a ? a.toLowerCase() : a
normAddr(a) == IF a # "" THEN toLowerCase(a) ELSE a

\* who awaits a checkAdmin call: onWalletSelect or an accountsChanged listener
Awaiters == {"onWalletSelect", "accountsChanged"}
CheckKinds == WalletAccounts \X Awaiters

\* what `await contract.getOwner()` ends with
Outcomes == {"returned", "thrown"}

\* the number of calls of the given kinds in flight
RECURSIVE InFlight(_, _)
InFlight(calls, kinds) ==
    IF kinds = {} THEN 0
    ELSE LET k == CHOOSE k \in kinds : TRUE
         IN  calls[k] + InFlight(calls, kinds \ {k})

Pending == InFlight(checks, CheckKinds)
SelectsPending == InFlight(checks, WalletAccounts \X {"onWalletSelect"})

AppInit ==
    /\ account = ""
    /\ isAdmin = FALSE
    /\ checks = [k \in CheckKinds |-> 0]
    /\ listeners = 0

\* checkAdmin(addr) up to `await contract.getOwner()`
StartChecks(addr, awaiter, n) ==
    checks' = [checks EXCEPT ![<<addr, awaiter>>] = @ + n]

\* onWalletSelect once eth_requestAccounts has answered with acc:
\* setAccount(acc); await checkAdmin(acc)
OnWalletSelect(acc) ==
    /\ Pending < MaxPending
    /\ listeners + SelectsPending < MaxListeners
    /\ account' = acc
    /\ StartChecks(acc, "onWalletSelect", 1)
    /\ UNCHANGED <<isAdmin, listeners>>

\* the wallet emits accountsChanged: every registered listener runs
\* setAccount(newAcc); await checkAdmin(newAcc)
OnAccountsChanged(newAcc) ==
    /\ listeners > 0
    /\ Pending + listeners <= MaxPending
    /\ account' = newAcc
    /\ StartChecks(newAcc, "accountsChanged", listeners)
    /\ UNCHANGED <<isAdmin, listeners>>

\* onDisconnect: setAccount(""); setIsAdmin(false); the listeners stay
OnDisconnect ==
    /\ account' = ""
    /\ isAdmin' = FALSE
    /\ UNCHANGED <<checks, listeners>>

\* a checkAdmin(addr) call resumes after getOwner: setIsAdmin of the
\* comparison, or setIsAdmin(false) in the catch; onWalletSelect then goes
\* on to wallet.provider.on("accountsChanged", ...)
CheckAdminCompletes(addr, awaiter, outcome) ==
    /\ checks[<<addr, awaiter>>] > 0
    /\ checks' = [checks EXCEPT ![<<addr, awaiter>>] = @ - 1]
    /\ isAdmin' = IF outcome = "returned"
                  THEN normAddr(addr) = normAddr(AsReturned(getOwner))
                  ELSE FALSE
    /\ listeners' = IF awaiter = "onWalletSelect" THEN listeners + 1
                    ELSE listeners
    /\ UNCHANGED account

\* ------------------------------------------------------------------------
\* Specifications
\* ------------------------------------------------------------------------
\* one transaction in the current block
Transaction ==
    /\ steps < MaxSteps
    /\ steps' = steps + 1
    /\ UNCHANGED <<now, scoreVars, appVars>>

Init ==
    /\ PlainInit
    /\ FheInit
    /\ now = 1
    /\ steps = 0
    /\ scoreInput = NoInput
    /\ scoreOutput = NoOutput
    /\ AppInit

\* the chain produces the next block; block.timestamp advances
NewBlock ==
    /\ steps < MaxSteps
    /\ steps' = steps + 1
    /\ now' = now + 1
    /\ UNCHANGED <<plainVars, fheVars, scoreVars, appVars>>

\* Spec: the Plain contract alone
AssessRisk(sender, age, annualIncome, clientId) ==
    /\ Transaction
    /\ PlainAssessRisk(sender, age, annualIncome, clientId)
    /\ UNCHANGED fheVars

BatchAssessRisk(sender, ages, incomes, clientIds) ==
    /\ Transaction
    /\ PlainBatchAssessRisk(sender, ages, incomes, clientIds)
    /\ UNCHANGED fheVars

UpdateRiskParameters(sender, incomeMultiplier, riskThreshold) ==
    /\ Transaction
    /\ PlainUpdateRiskParameters(sender, incomeMultiplier, riskThreshold)
    /\ UNCHANGED fheVars

TransferOwnership(sender, newOwner) ==
    /\ Transaction
    /\ PlainTransferOwnership(sender, newOwner)
    /\ UNCHANGED fheVars

Next ==
    \/ \E age \in Ages, income \in Incomes, clientId \in ClientIds :
           AssessRisk(Deployer, age, income, clientId)
    \/ \E b \in Batches : BatchAssessRisk(Deployer, b[1], b[2], b[3])
    \/ \E sender \in Callers, m \in Multipliers, t \in Thresholds :
           UpdateRiskParameters(sender, m, t)
    \/ \E sender \in Callers, newOwner \in Addresses :
           TransferOwnership(sender, newOwner)
    \/ NewBlock

Spec == Init /\ [][Next]_vars

\* SpecScore: one assessment of "client-1" on the freshly deployed contract,
\* for each scoring input, with the values of the scoring functions recorded
InitScore ==
    /\ PlainInit
    /\ FheInit
    /\ now = 1
    /\ steps = 0
    /\ scoreInput \in ScoreInputs
    /\ scoreOutput = NoOutput
    /\ AppInit

\* the input fits a euint32
Fits32(input) ==
    Len(input.age) <= Uint32Limbs /\ Len(input.income) <= Uint32Limbs

ScoreAndAssess ==
    /\ ~scoreOutput.done
    /\ steps < MaxSteps
    /\ steps' = steps + 1
    /\ PlainAssessRisk(Deployer, scoreInput.age, scoreInput.income, "client-1")
    /\ scoreOutput' =
           [done |-> TRUE,
            ageFactor |-> AgeFactor(scoreInput.age),
            incomeFactor |-> IncomeFactor(scoreInput.income),
            riskScore |-> calculateRiskScore(scoreInput.age, scoreInput.income),
            encryptedAgeFactor |->
                EncryptedAgeFactor(asEuint32(scoreInput.age)),
            encryptedIncomeFactor |->
                EncryptedIncomeFactor(asEuint32(scoreInput.income)),
            encryptedRiskScore |->
                calculateEncryptedRiskScore(asEuint32(scoreInput.age),
                                            asEuint32(scoreInput.income))]
    /\ UNCHANGED <<fheVars, now, scoreInput, appVars>>

NextScore == ScoreAndAssess

SpecScore == InitScore /\ [][NextScore]_vars

\* SpecFHE: the Confidential contract alone
AssessRiskEncrypted(sender, encryptedAge, encryptedIncome, clientId) ==
    /\ Transaction
    /\ FheAssessRiskEncrypted(sender, encryptedAge, encryptedIncome, clientId)
    /\ UNCHANGED plainVars

BatchAssessRiskEncrypted(sender, encryptedAges, encryptedIncomes, clientIds) ==
    /\ Transaction
    /\ FheBatchAssessRiskEncrypted(sender, encryptedAges, encryptedIncomes,
                                   clientIds)
    /\ UNCHANGED plainVars

UpdateRiskParametersEncrypted(sender, encryptedMultiplier, encryptedThreshold) ==
    /\ Transaction
    /\ FheUpdateRiskParametersEncrypted(sender, encryptedMultiplier,
                                        encryptedThreshold)
    /\ UNCHANGED plainVars

TransferOwnershipFHE(sender, newOwner) ==
    /\ Transaction
    /\ FheTransferOwnership(sender, newOwner)
    /\ UNCHANGED plainVars

NextFHE ==
    \/ \E age \in FheAges, income \in FheIncomes, clientId \in ClientIds :
           AssessRiskEncrypted(Deployer, age, income, clientId)
    \/ \E b \in FheBatches :
           BatchAssessRiskEncrypted(Deployer, b[1], b[2], b[3])
    \/ \E sender \in Callers, m \in FheMultipliers, t \in FheThresholds :
           UpdateRiskParametersEncrypted(sender, m, t)
    \/ \E sender \in Callers, newOwner \in Addresses :
           TransferOwnershipFHE(sender, newOwner)
    \/ NewBlock

SpecFHE == Init /\ [][NextFHE]_vars

\* SpecBoth: every transaction is sent to both contracts with the same
\* inputs, encrypted for the Confidential one
BothAssess(sender, encryptedAge, encryptedIncome, clientId) ==
    /\ Transaction
    /\ PlainAssessRisk(sender, decrypt(encryptedAge), decrypt(encryptedIncome),
                       clientId)
    /\ FheAssessRiskEncrypted(sender, encryptedAge, encryptedIncome, clientId)

BothUpdate(sender, encryptedMultiplier, encryptedThreshold) ==
    /\ Transaction
    /\ PlainUpdateRiskParameters(sender, decrypt(encryptedMultiplier),
                                 decrypt(encryptedThreshold))
    /\ FheUpdateRiskParametersEncrypted(sender, encryptedMultiplier,
                                        encryptedThreshold)

BothTransfer(sender, newOwner) ==
    /\ Transaction
    /\ PlainTransferOwnership(sender, newOwner)
    /\ FheTransferOwnership(sender, newOwner)

NextBoth ==
    \/ \E age \in FheAges, income \in FheIncomes, clientId \in ClientIds :
           BothAssess(Deployer, age, income, clientId)
    \/ \E sender \in Callers, m \in FheMultipliers, t \in FheThresholds :
           BothUpdate(sender, m, t)
    \/ \E sender \in Callers, newOwner \in Addresses :
           BothTransfer(sender, newOwner)
    \/ NewBlock

SpecBoth == Init /\ [][NextBoth]_vars

\* ------------------------------------------------------------------------
\* Properties of RiskControl
\* ------------------------------------------------------------------------
\* a step that is one transaction (not a new block)
CallStep == steps' = steps + 1 /\ now' = now

Occurrences(ids, clientId) ==
    Cardinality({i \in 1..Len(ids) : ids[i] = clientId})

\* clientId has a stored record and is in the client index
Persisted(clientId) ==
    /\ assessmentResults[clientId].clientId = clientId
    /\ Occurrences(allClientIds, clientId) >= 1

BatchOfEqualLengths ==
    /\ lastCall.op = "batchAssessRisk"
    /\ Len(lastCall.args[1]) = Len(lastCall.args[2])
    /\ Len(lastCall.args[2]) = Len(lastCall.args[3])

\* item i of the last batch is approved with a credit limit beyond uint256
ItemOverflows(i) ==
    LET age == lastCall.args[1][i]
        income == lastCall.args[2][i]
        ageFactor == IF Gt(age, FromInt(40)) THEN FromInt(40) ELSE age
        thousands == Div(Div(income, 1000000), 1000)
        incomeFactor ==
            IF Gt(thousands, FromInt(60)) THEN FromInt(60) ELSE thousands
    IN  /\ Geq(Add(ageFactor, incomeFactor), riskParameters.riskThreshold)
        /\ Lt(UintMax, Mul(Div(income, 12), riskParameters.incomeMultiplier))

NonEmptyItems == {i \in 1..Len(lastCall.args[3]) : lastCall.args[3][i] # ""}

ExactlyOneEmpty ==
    Cardinality({i \in 1..Len(lastCall.args[3]) : lastCall.args[3][i] = ""}) = 1

\* C1 as stated: a batch of N items with exactly one empty clientId returns
\* successCount = N-1 and persists every non-empty clientId.
C1_BatchIsolation ==
    (BatchOfEqualLengths /\ ExactlyOneEmpty) =>
        /\ lastCall.error = ""
        /\ lastCall.ret = <<Len(lastCall.args[3]) - 1>>
        /\ \A i \in NonEmptyItems : Persisted(lastCall.args[3][i])

\* C1 amended: a batch with exactly one empty clientId returns the number of
\* non-empty-clientId items whose credit limit fits uint256 (N-1 when all
\* fit) and persists each of them; the empty item aborts neither the items
\* before it nor those after it.
C1_BatchIsolationAmended ==
    (BatchOfEqualLengths /\ ExactlyOneEmpty) =>
        /\ lastCall.error = ""
        /\ lastCall.ret =
               <<Cardinality({i \in NonEmptyItems : ~ItemOverflows(i)})>>
        /\ \A i \in NonEmptyItems :
               ~ItemOverflows(i) => Persisted(lastCall.args[3][i])

C1_Witness ==
    /\ BatchOfEqualLengths
    /\ lastCall.args[3] = <<"client-1", "", "client-2">>
    /\ lastCall.ret = <<2>>
    /\ Persisted("client-1")
    /\ Persisted("client-2")

\* C2: a batch whose three arrays differ in length fails with LengthMismatch
\* and changes nothing: ledger, index, parameters and owner stay, no event.
C2_LengthMismatch ==
    [][(/\ CallStep
        /\ lastCall'.op = "batchAssessRisk"
        /\ ~(/\ Len(lastCall'.args[1]) = Len(lastCall'.args[2])
             /\ Len(lastCall'.args[2]) = Len(lastCall'.args[3])))
       => /\ lastCall'.error = "LengthMismatch"
          /\ events' = <<>>
          /\ UNCHANGED <<assessmentResults, allClientIds, riskParameters,
                         owner>>]_vars

C2_Witness ==
    /\ lastCall.op = "batchAssessRisk"
    /\ lastCall.error = "LengthMismatch"
    /\ Len(lastCall.args[1]) >= 1
    /\ Len(lastCall.args[2]) >= 1
    /\ lastCall.args[3][1] # ""
    /\ allClientIds = <<>>
    /\ events = <<>>

C4_AccessControl ==
    [][(/\ CallStep
        /\ lastCall'.op \in {"updateRiskParameters", "transferOwnership"}
        /\ lastCall'.sender # owner)
       => /\ lastCall'.error = "Unauthorized"
          /\ events' = <<>>
          /\ UNCHANGED <<riskParameters, owner, assessmentResults,
                         allClientIds>>]_vars

C4_Witness ==
    /\ lastCall.op = "updateRiskParameters"
    /\ lastCall.sender # owner
    /\ lastCall.error = "Unauthorized"
    /\ lastCall.args # <<riskParameters.incomeMultiplier,
                         riskParameters.riskThreshold>>

Stored == {c \in ClientIds : assessmentResults[c].clientId # ""}

\* C5 as stated: every stored result has approved = (riskScore >= the live
\* riskThreshold).
C5_LiveThreshold ==
    \A c \in Stored :
        assessmentResults[c].approved =
            Geq(assessmentResults[c].riskScore, riskParameters.riskThreshold)

\* C5 amended: every stored result has approved = (riskScore >= the
\* riskThreshold that was live when the record was written).
C5_ThresholdWhenWritten ==
    \A c \in Stored :
        assessmentResults[c].approved =
            Geq(assessmentResults[c].riskScore, writtenUnder[c].riskThreshold)

C5_Witness ==
    \E c \in Stored :
        /\ writtenUnder[c].riskThreshold # riskParameters.riskThreshold
        /\ assessmentResults[c].approved
        /\ Lt(assessmentResults[c].riskScore, riskParameters.riskThreshold)

\* C6: a successful assess returns and stores approved = (riskScore >=
\* threshold), creditLimit = 0 when not approved and creditLimit =
\* (income/12)*multiplier when approved, under the parameters in force.
C6_DecisionRule ==
    (lastCall.op = "assessRisk" /\ lastCall.error = "") =>
        LET income == lastCall.args[2]
            stored == assessmentResults[lastCall.args[3]]
            creditLimit == lastCall.ret[1]
            riskScore == lastCall.ret[2]
            approved == lastCall.ret[3]
        IN  /\ approved = Geq(riskScore, riskParameters.riskThreshold)
            /\ ~approved => creditLimit = <<>>
            /\ approved =>
                   creditLimit =
                       Mul(Div(income, 12), riskParameters.incomeMultiplier)
            /\ stored.creditLimit = creditLimit
            /\ stored.riskScore = riskScore
            /\ stored.approved = approved

C6_Witness ==
    /\ lastCall.op = "assessRisk"
    /\ lastCall.error = ""
    /\ riskParameters = DefaultParameters
    /\ lastCall.ret[3]
    /\ lastCall.ret[1] # <<>>
    /\ lastCall.ret[1] # lastCall.args[2]

\* C9 as stated: in a batch of equal lengths successCount is the number of
\* non-empty clientIds and each of them is persisted.
C9_OnlyEmptyIdFails ==
    BatchOfEqualLengths =>
        /\ lastCall.ret = <<Cardinality(NonEmptyItems)>>
        /\ \A i \in NonEmptyItems : Persisted(lastCall.args[3][i])

\* C9 amended: an item of a batch fails exactly when its clientId is empty or
\* its credit limit (income/12)*incomeMultiplier does not fit uint256;
\* successCount is the number of the other items and each is persisted.
C9_EmptyIdOrOverflowFails ==
    BatchOfEqualLengths =>
        LET succeeded == {i \in NonEmptyItems : ~ItemOverflows(i)}
        IN  /\ lastCall.ret = <<Cardinality(succeeded)>>
            /\ AssessedIn(events, "client-1") + AssessedIn(events, "client-2")
                   = Cardinality(succeeded)
            /\ \A i \in succeeded : Persisted(lastCall.args[3][i])

C9_Witness ==
    /\ BatchOfEqualLengths
    /\ lastCall.args[3] = <<"client-1", "client-2">>
    /\ lastCall.ret = <<1>>
    /\ Persisted("client-1")
    /\ ~Persisted("client-2")

\* 8,333,333,332
Limit8333333332 == Add(Mul(FromInt(8333), FromInt(1000000)), FromInt(333332))

IsExampleCall ==
    /\ steps = 1
    /\ lastCall.op = "assessRisk"
    /\ lastCall.args = <<FromInt(35), Income50k, "client-1">>

\* C10 as stated: from the initial state, assess(35, 50_000_000_000,
\* "client-1") returns and stores riskScore 85, approved, creditLimit 8332.
C10_Example ==
    IsExampleCall =>
        /\ lastCall.ret = <<FromInt(8332), FromInt(85), TRUE>>
        /\ assessmentResults["client-1"].creditLimit = FromInt(8332)
        /\ assessmentResults["client-1"].riskScore = FromInt(85)
        /\ assessmentResults["client-1"].approved

\* C10 amended: the same call returns and stores riskScore 85, approved and
\* creditLimit (50_000_000_000/12)*2 = 8,333,333,332.
C10_ExampleAmended ==
    IsExampleCall =>
        /\ lastCall.ret = <<Limit8333333332, FromInt(85), TRUE>>
        /\ assessmentResults["client-1"].creditLimit = Limit8333333332
        /\ assessmentResults["client-1"].riskScore = FromInt(85)
        /\ assessmentResults["client-1"].approved

C10_Witness ==
    /\ IsExampleCall
    /\ lastCall.error = ""
    /\ assessmentResults["client-1"].clientId = "client-1"

\* ------------------------------------------------------------------------
\* Properties of the Confidential engine
\* ------------------------------------------------------------------------
\* C7: in the Confidential engine the decrypted approved flag of every
\* assessment is true exactly when riskScore >= riskThreshold, also when the
\* two are equal.
C7_ConfidentialGeq ==
    (fheLastCall.op = "assessRiskEncrypted" /\ fheLastCall.error = "") =>
        decryptBool(fheLastCall.ret[3]) =
            Geq(decrypt(fheLastCall.ret[2]),
                decrypt(fheRiskParameters.riskThreshold))

\* C8: for the same inputs and equal parameters the decrypted outputs of the
\* Confidential assess equal the outputs of the Plain assess.
C8_Equivalence ==
    (/\ lastCall.op = "assessRisk"
     /\ lastCall.error = ""
     /\ fheLastCall.op = "assessRiskEncrypted"
     /\ riskParameters.incomeMultiplier =
            decrypt(fheRiskParameters.incomeMultiplier)
     /\ riskParameters.riskThreshold =
            decrypt(fheRiskParameters.riskThreshold))
    => /\ fheLastCall.error = ""
       /\ decrypt(fheLastCall.ret[1]) = lastCall.ret[1]
       /\ decrypt(fheLastCall.ret[2]) = lastCall.ret[2]
       /\ decryptBool(fheLastCall.ret[3]) = lastCall.ret[3]

\* ------------------------------------------------------------------------
\* Properties of the ledger and of the scoring functions
\* ------------------------------------------------------------------------
\* C11: immutable records: once a result is stored for a clientId, no step
\* changes its creditLimit, riskScore, approved flag or timestamp.
C11_ImmutableRecords ==
    [][\A c \in ClientIds :
        assessmentResults[c].clientId # "" =>
            /\ assessmentResults'[c].creditLimit = assessmentResults[c].creditLimit
            /\ assessmentResults'[c].riskScore = assessmentResults[c].riskScore
            /\ assessmentResults'[c].approved = assessmentResults[c].approved
            /\ assessmentResults'[c].timestamp = assessmentResults[c].timestamp]_vars

\* the credit limit of an approved assessment, in unbounded arithmetic
ExactLimit(income, multiplier) == Mul(Div(income, 12), multiplier)

\* the value is the exact one, or the largest of the width when the exact
\* one does not fit
ExactOrSaturated(value, exact, limbs) ==
    IF Len(exact) <= limbs THEN value = exact
    ELSE value = [i \in 1..limbs |-> Base - 1]

\* C12: no silent wraparound, in both engines: an assessment that succeeds
\* and approves returns and stores the exact (income/12)*incomeMultiplier, or
\* the saturated value when the exact one exceeds the width; never the
\* value reduced modulo 2^width.
C12_NoSilentWraparound ==
    /\ (lastCall.op = "assessRisk" /\ lastCall.error = "" /\ lastCall.ret[3])
       => /\ ExactOrSaturated(lastCall.ret[1],
                              ExactLimit(lastCall.args[2],
                                         riskParameters.incomeMultiplier),
                              Uint256Limbs)
          /\ assessmentResults[lastCall.args[3]].creditLimit = lastCall.ret[1]
    /\ (/\ fheLastCall.op = "assessRiskEncrypted"
        /\ fheLastCall.error = ""
        /\ decryptBool(fheLastCall.ret[3]))
       => /\ ExactOrSaturated(decrypt(fheLastCall.ret[1]),
                              ExactLimit(decrypt(fheLastCall.args[2]),
                                         decrypt(fheRiskParameters.incomeMultiplier)),
                              Uint32Limbs)
          /\ encryptedAssessments[fheLastCall.args[3]].creditLimit =
                 fheLastCall.ret[1]

\* a value of the scoring functions is the number n
IsNumber(value, n) == value # Panic /\ value = FromInt(n)

\* a value of the scoring functions lies in [0, 100]
InScoreRange(value) ==
    /\ value # Panic
    /\ Len(value) <= 1
    /\ Limb(value, 1) <= 100

\* C13: for every age and income the risk score that calculateRiskScore
\* computes lies in [0, 100], and so does every risk score in the ledger.
C13_ScoreRange ==
    /\ scoreOutput.done => InScoreRange(scoreOutput.riskScore)
    /\ \A c \in ClientIds : InScoreRange(assessmentResults[c].riskScore)

C13_Witness ==
    /\ scoreOutput.done
    /\ scoreInput.age = UintMax
    /\ scoreInput.income = UintMax
    /\ scoreOutput.riskScore = FromInt(100)
    /\ assessmentResults["client-1"].riskScore = FromInt(100)

\* min(n, 40) of an age, read off its limbs
CappedAge(age) ==
    IF Len(age) <= 1 /\ Limb(age, 1) <= 40 THEN Limb(age, 1) ELSE 40

\* C14: the age factor is the age for every age in [0, 40] and 40 for every
\* age above 40, in both engines; it never fails, also for an age whose
\* product with 40 does not fit the integer width.
C14_AgeFactor ==
    scoreOutput.done =>
        /\ IsNumber(scoreOutput.ageFactor, CappedAge(scoreInput.age))
        /\ lastCall.error = ""
        /\ Len(scoreInput.age) <= Uint32Limbs =>
               decrypt(scoreOutput.encryptedAgeFactor) =
                   FromInt(CappedAge(scoreInput.age))

C14_Witness ==
    /\ scoreOutput.done
    /\ scoreInput.age = Add(Div(UintMax, 40), FromInt(1))
    /\ Overflows256(Mul(scoreInput.age, FromInt(40)))
    /\ scoreOutput.ageFactor = FromInt(40)
    /\ lastCall.error = ""

\* min(n, 60) of a number of thousands
CappedThousands(n) == IF n > 60 THEN 60 ELSE n

\* C15: the income factor is min((income / 10^6) / 1000, 60) with both
\* divisions truncating: for an income of d dollars and m micro-dollars it
\* is min(d \div 1000, 60), and 60 for every income of 2^40 units or more;
\* in both engines.
C15_IncomeFactor ==
    scoreOutput.done =>
        /\ scoreInput.income = MicroUsdt(scoreInput.dollars, scoreInput.micros)
               => IsNumber(scoreOutput.incomeFactor,
                           CappedThousands(scoreInput.dollars \div 1000))
        /\ Len(scoreInput.income) > 5 =>
               IsNumber(scoreOutput.incomeFactor, 60)
        /\ Len(scoreInput.income) <= Uint32Limbs =>
               decrypt(scoreOutput.encryptedIncomeFactor) =
                   FromInt(CappedThousands(scoreInput.dollars \div 1000))

C15_Witness ==
    /\ scoreOutput.done
    /\ scoreInput.dollars = 59999
    /\ scoreInput.micros = 999999
    /\ scoreOutput.incomeFactor = FromInt(59)

\* what the most recent AssessmentPerformed event of clientId carried
WrittenValues(clientId) ==
    <<lastWritten[clientId].creditLimit, lastWritten[clientId].riskScore,
      lastWritten[clientId].approved, lastWritten[clientId].timestamp>>

\* C16: getAssessmentResult(clientId) fails with NotFound when clientId is
\* empty or was never successfully assessed, and otherwise returns the
\* creditLimit, riskScore, approved and timestamp of the most recent
\* successful assessment of clientId.
C16_Lookup ==
    \A c \in ClientIds :
        IF c = "" \/ assessed[c] = 0
        THEN getAssessmentResult(c) = [error |-> "NotFound", ret |-> <<>>]
        ELSE getAssessmentResult(c) = [error |-> "", ret |-> WrittenValues(c)]

C16_Witness ==
    /\ assessed["client-1"] = 2
    /\ assessed["client-2"] = 0
    /\ lastCall.op = "assessRisk"
    /\ lastCall.args[2] = <<>>
    /\ getAssessmentResult("client-1") =
           [error |-> "", ret |-> <<<<>>, FromInt(35), FALSE, now>>]
    /\ getAssessmentResult("client-2").error = "NotFound"
    /\ getAssessmentResult("").error = "NotFound"

\* the record of the most recent AssessmentPerformed event of clientId
WrittenRecord(clientId) ==
    [creditLimit |-> lastWritten[clientId].creditLimit,
     riskScore |-> lastWritten[clientId].riskScore,
     approved |-> lastWritten[clientId].approved,
     clientId |-> clientId,
     timestamp |-> lastWritten[clientId].timestamp]

\* C17: getBatchAssessmentResults(clientIds) is positional: it has the length
\* of clientIds, entry i is the stored record of clientIds[i] when that was
\* assessed and the all-default record when it was not or is empty, and an
\* entry is all-default exactly when getAssessmentResult(clientIds[i]) fails.
C17_GetMany ==
    \A q \in Queries :
        /\ Len(getBatchAssessmentResults(q)) = Len(q)
        /\ \A i \in 1..Len(q) :
               /\ getBatchAssessmentResults(q)[i] =
                      IF q[i] # "" /\ assessed[q[i]] > 0
                      THEN WrittenRecord(q[i]) ELSE NoResult
               /\ (getBatchAssessmentResults(q)[i] = NoResult)
                      <=> (getAssessmentResult(q[i]).error # "")

C17_Witness ==
    /\ assessed["client-1"] > 0
    /\ assessed["client-2"] = 0
    /\ getBatchAssessmentResults(<<"client-2", "client-1", "client-1">>)[1] = NoResult
    /\ getBatchAssessmentResults(<<"client-2", "client-1", "client-1">>)[2].clientId = "client-1"
    /\ getBatchAssessmentResults(<<"client-2", "client-1", "client-1">>)[3] =
           assessmentResults["client-1"]
    /\ getBatchAssessmentResults(<<"client-1", "", "client-2">>)[2] = NoResult

C19_Distinct ==
    \A c \in ClientIds : Occurrences(allClientIds, c) <= 1

C19_Witness ==
    /\ lastCall.op = "batchAssessRisk"
    /\ lastCall.args[3] = <<"client-1", "client-1">>
    /\ lastCall.ret = <<2>>
    /\ assessed["client-1"] = 3
    /\ allClientIds = <<"client-1">>

\* C20: a clientId that has a stored record keeps having one, and the
\* client index before a step is a prefix of the index after it.
C20_MonotoneLedger ==
    [][/\ \A c \in ClientIds :
              assessmentResults[c].clientId # "" =>
                  assessmentResults'[c].clientId = c
       /\ Len(allClientIds) <= Len(allClientIds')
       /\ SubSeq(allClientIds', 1, Len(allClientIds)) = allClientIds]_vars

C20_Witness ==
    /\ allClientIds = <<"client-1", "client-2">>
    /\ lastCall.op = "assessRisk"
    /\ lastCall.args[3] = "client-1"
    /\ assessed["client-1"] = 2

\* ------------------------------------------------------------------------
\* Properties of the administrative operations and of the batch
\* ------------------------------------------------------------------------
\* the operations behind onlyOwner
GatedOps == {"updateRiskParameters", "transferOwnership"}

\* the last transaction was a transfer of the ownership that succeeded
Transferred == lastCall.op = "transferOwnership" /\ lastCall.error = ""

\* C21: transferOwnership(newOwner) by the owner sets owner to a non-null
\* newOwner and fails with InvalidInput, owner unchanged, for the null one;
\* right after a transfer the gated calls of the former owner fail with
\* Unauthorized and those of the new owner pass the gate; owner is the
\* deployer initially and never the null identity.
C21_OwnershipTransfer ==
    /\ [](owner # ZeroAddress /\ (steps = 0 => owner = Deployer))
    /\ [][(CallStep /\ lastCall'.op = "transferOwnership"
                    /\ lastCall'.sender = owner)
          => IF lastCall'.args[1] = ZeroAddress
             THEN lastCall'.error = "InvalidInput" /\ owner' = owner
             ELSE lastCall'.error = "" /\ owner' = lastCall'.args[1]]_vars
    /\ [][(CallStep /\ Transferred /\ lastCall'.op \in GatedOps)
          => /\ (lastCall'.sender = lastCall.sender
                 /\ lastCall.sender # lastCall.args[1])
                    => lastCall'.error = "Unauthorized"
             /\ lastCall'.sender = lastCall.args[1]
                    => /\ lastCall'.error # "Unauthorized"
                       /\ lastCall'.op = "updateRiskParameters"
                              => lastCall'.error = ""]_vars

C21_Witness ==
    /\ owner = Other
    /\ lastCall.op = "updateRiskParameters"
    /\ lastCall.sender = Deployer
    /\ lastCall.error = "Unauthorized"

\* C22: updateRiskParameters by the owner replaces incomeMultiplier and
\* riskThreshold together in one step and emits one ParametersUpdated event;
\* riskParameters changes in no other step; a successful assess decides and
\* computes with the pair in force when it runs.
C22_ParameterUpdate ==
    [][/\ (CallStep /\ lastCall'.op = "updateRiskParameters"
                    /\ lastCall'.sender = owner)
          => /\ lastCall'.error = ""
             /\ riskParameters' = [incomeMultiplier |-> lastCall'.args[1],
                                   riskThreshold |-> lastCall'.args[2]]
             /\ events' = <<[name |-> "ParametersUpdated", timestamp |-> now]>>
       /\ riskParameters' # riskParameters
          => /\ CallStep
             /\ lastCall'.op = "updateRiskParameters"
             /\ lastCall'.error = ""
       /\ (CallStep /\ lastCall'.op = "assessRisk" /\ lastCall'.error = "")
          => /\ lastCall'.ret[3] =
                    Geq(lastCall'.ret[2], riskParameters.riskThreshold)
             /\ lastCall'.ret[1] =
                    IF lastCall'.ret[3]
                    THEN ExactLimit(lastCall'.args[2],
                                    riskParameters.incomeMultiplier)
                    ELSE <<>>
             /\ writtenUnder'[lastCall'.args[3]] = riskParameters]_vars

C22_Witness ==
    /\ riskParameters = [incomeMultiplier |-> FromInt(13),
                         riskThreshold |-> FromInt(90)]
    /\ lastCall.op = "assessRisk"
    /\ lastCall.error = ""
    /\ lastCall.ret[2] = FromInt(90)
    /\ lastCall.ret[3]
    /\ lastCall.ret[1] = ExactLimit(Income50k, FromInt(13))

\* the storage and the number of successes once the single assessRisk call
\* with result r has been issued on the storage `before`
AfterSingle(before, r) ==
    IF r.error = ""
    THEN [results |-> r.results, ids |-> r.ids, count |-> before.count + 1]
    ELSE before

\* one more single assessRisk call, with the arguments at index k
OneMoreSingle(before, params, args, ts, k) ==
    CHOOSE after \in
        {AfterSingle(before, r) :
            r \in {assessRisk(before.results, before.ids, params, args[1][k],
                              args[2][k], args[3][k], ts)}} : TRUE

\* the storage and the number of successes after the single assessRisk
\* calls with the arguments at indices 1..k, issued one after another
RECURSIVE SinglesUpTo(_, _, _, _, _, _)
SinglesUpTo(results, ids, params, args, ts, k) ==
    IF k = 0 THEN [results |-> results, ids |-> ids, count |-> 0]
    ELSE CHOOSE after \in
             {OneMoreSingle(before, params, args, ts, k) :
                 before \in {SinglesUpTo(results, ids, params, args, ts,
                                         k - 1)}} : TRUE

\* item i of the last batch succeeds
ItemSucceeds(i) == lastCall.args[3][i] # "" /\ ~ItemOverflows(i)

\* the highest succeeding index of clientId in the last batch (0: none)
HighestOf(clientId) ==
    Max({0} \cup {i \in 1..Len(lastCall.args[3]) :
                     lastCall.args[3][i] = clientId /\ ItemSucceeds(i)})

\* C23: a batch that passes the length check leaves the ledger, the index
\* and the successCount of the single assessRisk calls issued in index
\* order, the failing ones skipped; a clientId at several indices gets one
\* index slot and the record of its highest succeeding index, and every
\* succeeding occurrence counts.
C23_BatchOrder ==
    /\ [][(CallStep /\ BatchOfEqualLengths')
          => \E singles \in {SinglesUpTo(assessmentResults, allClientIds,
                                         riskParameters, lastCall'.args, now,
                                         Len(lastCall'.args[1]))} :
                 /\ assessmentResults' = singles.results
                 /\ allClientIds' = singles.ids
                 /\ lastCall'.ret = <<singles.count>>]_vars
    /\ [](BatchOfEqualLengths
          => /\ lastCall.ret =
                    <<Cardinality({i \in 1..Len(lastCall.args[3]) :
                                      ItemSucceeds(i)})>>
             /\ \A c \in ClientIds :
                    \E highest \in {HighestOf(c)} :
                        highest > 0 =>
                            /\ Occurrences(allClientIds, c) = 1
                            /\ assessmentResults[c].riskScore =
                                   calculateRiskScore(
                                       lastCall.args[1][highest],
                                       lastCall.args[2][highest]))

C23_Witness ==
    /\ BatchOfEqualLengths
    /\ lastCall.args[3] = <<"client-1", "client-1">>
    /\ lastCall.ret = <<2>>
    /\ allClientIds = <<"client-1">>
    /\ assessmentResults["client-1"].riskScore = FromInt(100)
    /\ calculateRiskScore(lastCall.args[1][1], lastCall.args[2][1]) = FromInt(85)

\* the positions of the events named `name` among the emitted ones
Named(emitted, name) == {i \in 1..Len(emitted) : emitted[i].name = name}

\* C24: a batch that passes the length check emits exactly one
\* BatchAssessmentPerformed, after all AssessmentPerformed events of the
\* batch; its count is the returned successCount and the number of
\* AssessmentPerformed events of the batch, also when that number is 0.
C24_BatchObservations ==
    BatchOfEqualLengths
        => /\ Named(events, "BatchAssessmentPerformed") = {Len(events)}
           /\ Named(events, "AssessmentPerformed") = 1..(Len(events) - 1)
           /\ <<events[Len(events)].count>> = lastCall.ret
           /\ events[Len(events)].count =
                  Cardinality(Named(events, "AssessmentPerformed"))

C24_Witness ==
    /\ BatchOfEqualLengths
    /\ lastCall.args[3] = <<"client-1", "", "client-2">>
    /\ Len(events) = 3
    /\ events[1].clientId = "client-1"
    /\ events[2].clientId = "client-2"
    /\ events[3] = [name |-> "BatchAssessmentPerformed", count |-> 2,
                    timestamp |-> now]

\* the last call is a single assessRisk
SingleAssess == lastCall.op = "assessRisk"

\* C25: assessRisk with an empty clientId fails with InvalidInput; a failed
\* assessRisk leaves the ledger (the entry under "" included), the index,
\* the parameters and the owner as they were and emits no event; a
\* successful one stores the record, has the clientId in the index and
\* emits its AssessmentPerformed in the same step.
C25_AtomicAssess ==
    [][(CallStep /\ SingleAssess')
       => /\ lastCall'.args[3] = "" => lastCall'.error = "InvalidInput"
          /\ lastCall'.error # ""
                => /\ assessmentResults' = assessmentResults
                   /\ assessmentResults'[""] = NoResult
                   /\ allClientIds' = allClientIds
                   /\ riskParameters' = riskParameters
                   /\ owner' = owner
                   /\ events' = <<>>
                   /\ lastCall'.ret = <<>>
          /\ lastCall'.error = ""
                => /\ assessmentResults'[lastCall'.args[3]] =
                          [creditLimit |-> lastCall'.ret[1],
                           riskScore |-> lastCall'.ret[2],
                           approved |-> lastCall'.ret[3],
                           clientId |-> lastCall'.args[3],
                           timestamp |-> now]
                   /\ Occurrences(allClientIds', lastCall'.args[3]) = 1
                   /\ events' =
                          <<[name |-> "AssessmentPerformed",
                             clientId |-> lastCall'.args[3],
                             creditLimit |-> lastCall'.ret[1],
                             riskScore |-> lastCall'.ret[2],
                             approved |-> lastCall'.ret[3],
                             timestamp |-> now]>>]_vars

C25_Witness ==
    /\ SingleAssess
    /\ lastCall.args[3] = ""
    /\ lastCall.error = "InvalidInput"
    /\ allClientIds = <<"client-1">>
    /\ assessmentResults[""] = NoResult
    /\ events = <<>>

\* SpecPurity: both contracts, every assessment with the one (age, income)
\* drawn at the start; scoreOutput keeps the first successful assessment
\* and the context it ran in.
PuritySteps == MaxSteps + 1

PurityInputs ==
    {input \in ScoreInputs :
        /\ Fits32(input)
        /\ input.age \in {FromInt(39), FromInt(41)}
        /\ input.dollars \in {999, 4294}
        /\ input.micros = 0}

InitPurity ==
    /\ PlainInit
    /\ FheInit
    /\ now = 1
    /\ steps = 0
    /\ scoreInput \in PurityInputs
    /\ scoreOutput = NoOutput
    /\ AppInit

PurityStep ==
    /\ steps < PuritySteps
    /\ steps' = steps + 1
    /\ UNCHANGED <<scoreInput, appVars>>

PurityAssess(sender, clientId) ==
    /\ PurityStep
    /\ PlainAssessRisk(sender, scoreInput.age, scoreInput.income, clientId)
    /\ FheAssessRiskEncrypted(sender, asEuint32(scoreInput.age),
                              asEuint32(scoreInput.income), clientId)
    /\ scoreOutput' =
           IF scoreOutput.done \/ lastCall'.error # "" THEN scoreOutput
           ELSE [done |-> TRUE,
                 riskScore |-> lastCall'.ret[2],
                 encryptedRiskScore |-> fheLastCall'.ret[2],
                 sender |-> sender,
                 clientId |-> clientId,
                 timestamp |-> now,
                 riskParameters |-> riskParameters,
                 owner |-> owner,
                 allClientIds |-> allClientIds]
    /\ UNCHANGED now

PurityUpdate(sender) ==
    /\ PurityStep
    /\ PlainUpdateRiskParameters(sender, FromInt(13), FromInt(40))
    /\ FheUpdateRiskParametersEncrypted(sender, asEuint32(FromInt(13)),
                                        asEuint32(FromInt(40)))
    /\ UNCHANGED <<now, scoreOutput>>

PurityTransfer(sender) ==
    /\ PurityStep
    /\ PlainTransferOwnership(sender, Other)
    /\ FheTransferOwnership(sender, Other)
    /\ UNCHANGED <<now, scoreOutput>>

PurityNewBlock ==
    /\ PurityStep
    /\ now' = now + 1
    /\ UNCHANGED <<plainVars, fheVars, scoreOutput>>

NextPurity ==
    \/ \E sender \in Callers, clientId \in ClientIds :
           PurityAssess(sender, clientId)
    \/ \E sender \in Callers : PurityUpdate(sender)
    \/ \E sender \in Callers : PurityTransfer(sender)
    \/ PurityNewBlock

SpecPurity == InitPurity /\ [][NextPurity]_vars

\* C26: every successful assessment of the same (age, income) stores and
\* returns the riskScore of the first one, in both contracts, whatever the
\* parameters, the owner, the caller, the clientId, the timestamp and the
\* ledger are by then.
C26_ScorePurity ==
    [][(steps' = steps + 1 /\ now' = now /\ scoreOutput.done /\ SingleAssess'
        /\ lastCall'.error = "")
       => /\ lastCall'.ret[2] = scoreOutput.riskScore
          /\ assessmentResults'[lastCall'.args[3]].riskScore =
                 scoreOutput.riskScore
          /\ fheLastCall'.ret[2] = scoreOutput.encryptedRiskScore
          /\ encryptedAssessments'[lastCall'.args[3]].riskScore =
                 scoreOutput.encryptedRiskScore]_vars

C26_Witness ==
    /\ scoreOutput.done
    /\ SingleAssess
    /\ lastCall.error = ""
    /\ lastCall.args[1] = FromInt(39)
    /\ lastCall.ret[2] = FromInt(43)
    /\ decrypt(fheLastCall.ret[2]) = FromInt(43)
    /\ lastCall.sender # scoreOutput.sender
    /\ lastCall.args[3] # scoreOutput.clientId
    /\ riskParameters # scoreOutput.riskParameters
    /\ allClientIds # scoreOutput.allClientIds
    /\ ~assessmentResults[scoreOutput.clientId].approved
    /\ lastCall.ret[3]

\* C27: a clientId is in allClientIds exactly when assessmentResults holds a
\* non-default record under it; a stored record's clientId field is its
\* key and is not empty; nothing is stored under the empty clientId.
C27_LedgerIndexConsistency ==
    /\ \A c \in ClientIds :
           /\ clientIdExists(allClientIds, c) <=> assessmentResults[c] # NoResult
           /\ assessmentResults[c] # NoResult
                 => /\ assessmentResults[c].clientId = c
                    /\ assessmentResults[c].clientId # ""
    /\ \A i \in 1..Len(allClientIds) : allClientIds[i] # ""
    /\ assessmentResults[""] = NoResult

C27_Witness ==
    /\ allClientIds = <<"client-2", "client-1">>
    /\ assessmentResults["client-1"].clientId = "client-1"
    /\ assessmentResults["client-2"].clientId = "client-2"
    /\ assessmentResults[""] = NoResult
    /\ BatchOfEqualLengths
    /\ lastCall.args[3] = <<"", "client-1">>

\* ids starts with the sequence before
StartsWith(ids, before) ==
    Len(before) <= Len(ids) /\ \A i \in 1..Len(before) : ids[i] = before[i]

\* C28: a successful assessRisk, and a batch through its successful items,
\* writes only the records of the assessed clientIds and appends only those
\* clientIds to allClientIds behind the entries already there; the other
\* records, riskParameters and owner stay as they were.
C28_FrameOfAssess ==
    [][(CallStep /\ (SingleAssess' \/ BatchOfEqualLengths'))
       => /\ \A c \in ClientIds :
                 EventsOf(events', c) = {}
                     => /\ assessmentResults'[c] = assessmentResults[c]
                        /\ Occurrences(allClientIds', c) =
                               Occurrences(allClientIds, c)
          /\ SingleAssess' /\ lastCall'.error = ""
                => /\ EventsOf(events', lastCall'.args[3]) = {1}
                   /\ allClientIds' \in
                          {allClientIds,
                           Append(allClientIds, lastCall'.args[3])}
          /\ \A c \in ClientIds :
                 EventsOf(events', c) # {}
                     => IF SingleAssess' THEN lastCall'.args[3] = c
                        ELSE \E i \in 1..Len(lastCall'.args[3]) :
                                 lastCall'.args[3][i] = c
          /\ StartsWith(allClientIds', allClientIds)
          /\ riskParameters' = riskParameters
          /\ owner' = owner]_vars

C28_Witness ==
    /\ BatchOfEqualLengths
    /\ lastCall.args[3] = <<"client-1", "">>
    /\ lastCall.ret = <<1>>
    /\ allClientIds = <<"client-2", "client-1">>
    /\ EventsOf(events, "client-2") = {}
    /\ assessmentResults["client-2"].riskScore = FromInt(40)
    /\ assessmentResults["client-1"].riskScore = FromInt(85)
    /\ owner = Deployer
    /\ riskParameters = DefaultParameters

\* the last call is a successful call of op
Succeeded(op) == lastCall.op = op /\ lastCall.error = ""

\* C29: a successful updateRiskParameters leaves owner, allClientIds and
\* every stored AssessmentResult as they were, records that the new
\* parameters would decide differently included; a successful
\* transferOwnership changes owner and nothing else.
C29_FrameOfAdmin ==
    [][/\ (CallStep /\ Succeeded("updateRiskParameters")')
          => /\ owner' = owner
             /\ allClientIds' = allClientIds
             /\ assessmentResults' = assessmentResults
       /\ (CallStep /\ Succeeded("transferOwnership")')
          => /\ riskParameters' = riskParameters
             /\ allClientIds' = allClientIds
             /\ assessmentResults' = assessmentResults
             /\ events' = <<>>]_vars

C29_Witness ==
    /\ Succeeded("updateRiskParameters")
    /\ riskParameters.riskThreshold = FromInt(90)
    /\ allClientIds = <<"client-1">>
    /\ assessmentResults["client-1"].riskScore = FromInt(85)
    /\ assessmentResults["client-1"].approved
    /\ ~IsApproved(assessmentResults["client-1"].riskScore,
                   riskParameters.riskThreshold)
    /\ owner = Deployer

\* SpecApp: the web app next to the deployed contract
WalletSelect(acc) ==
    /\ OnWalletSelect(acc)
    /\ UNCHANGED <<plainVars, fheVars, scoreVars, now, steps>>

AccountsChanged(newAcc) ==
    /\ OnAccountsChanged(newAcc)
    /\ UNCHANGED <<plainVars, fheVars, scoreVars, now, steps>>

Disconnect ==
    /\ OnDisconnect
    /\ UNCHANGED <<plainVars, fheVars, scoreVars, now, steps>>

CheckAdmin(addr, awaiter, outcome) ==
    /\ CheckAdminCompletes(addr, awaiter, outcome)
    /\ UNCHANGED <<plainVars, fheVars, scoreVars, now, steps>>

NextApp ==
    \/ \E acc \in WalletAccounts : WalletSelect(acc)
    \/ \E newAcc \in WalletAccounts : AccountsChanged(newAcc)
    \/ Disconnect
    \/ \E addr \in WalletAccounts, awaiter \in Awaiters, outcome \in Outcomes :
           CheckAdmin(addr, awaiter, outcome)

SpecApp == Init /\ [][NextApp]_vars

\* the connected account is the contract's owner, case aside
AccountIsOwner == normAddr(account) = normAddr(AsReturned(getOwner))

\* C30: whenever no checkAdmin call is in flight, isAdmin is not true for
\* an account that is not the owner (isAdmin says whether the connected
\* account is the owner).
C30_AdminFlag == Pending = 0 => (isAdmin => AccountIsOwner)

====
